---- MODULE Spec2Model ----
(***************************************************************************)
(* Model of the gunshot-detection monitor (src/main.py,                    *)
(* src/pretrained_detector.py): the AudioRecorder object, the hardware     *)
(* input stream it owns, the driver's callback context, and the            *)
(* monitoring loop of main().                                              *)
(*                                                                         *)
(* Two contexts take steps: the control-flow context (variable pc walks    *)
(* through main() and AudioRecorder.record()) and the driver context       *)
(* (AudioCallback, enabled while a stream is active).                      *)
(*                                                                         *)
(* The stream is the sounddevice InputStream as the code uses it: creating *)
(* it opens the device ("open": stopped, not closed); entering the         *)
(* with-block starts it ("active") or raises and leaves it open; leaving   *)
(* the with-block stops and closes it ("closed") without raising; .active  *)
(* is False for a stopped and for a closed stream; the driver invokes the  *)
(* callback only for an active stream.                                     *)
(*                                                                         *)
(* Numbers: sample amplitudes are integers in thousandths of full scale    *)
(* (1000 = 1.0); classifier scores are integers in thousandths (200 = 0.2);*)
(* decibel values are whole decades (the floor of the float value to a     *)
(* multiple of 10 dB), which integer arithmetic computes exactly; the      *)
(* number of filled meter segments is computed in exact integer            *)
(* arithmetic, where the code's float product may come out one segment     *)
(* lower strictly inside the range.                                        *)
(***************************************************************************)
EXTENDS Integers, Sequences, FiniteSets, TLC

\* ------------------------------------------------------------ configuration
SAMPLE_RATE == 44100
DURATION == 5
CHANNELS == 1
METER_WIDTH == 40
DB_MIN == -60
DB_MAX == 0
\* probability > 0.2, in thousandths
THRESHOLD == 200
\* sd.sleep(1000) in the loop's exception handler, in milliseconds
BACKOFF_MS == 1000
\* wf.setsampwidth(2): bytes per sample in the file
SAMPWIDTH == 2
\* bytes per element of the recorded array: the stream is created without a
\* dtype, so indata and np.array(self.audio_buffer) are float32
ITEMSIZE == 4

\* ------------------------------------------------------------------ bounds
\* callback invocations the driver makes during one record call
MaxChunks == 2
\* streams left open and no longer referenced by the recorder
MaxOrphans == 2
\* length of the arrays given to calculate_db when it is called directly
MaxArgLen == 3

\* a chunk: the indata array of one callback invocation, one row per frame,
\* amplitudes in thousandths of full scale
Chunks == {<<0, 0>>, <<0, 1000>>, <<1000, 0>>}
\* classifier scores, in thousandths
Scores == {0, 200, 201, 900}
\* the default input device: absent, or present with a native sample rate
NoDevice == 0
Devices == {NoDevice, 44100, 48000}
\* probability before detect has returned
NoScore == -1
\* no file written
NoFile == [written |-> FALSE, nchannels |-> 0, sampwidth |-> 0, framerate |-> 0,
           nframes |-> 0]
\* no function called directly
NoArg == [fn |-> "none", input |-> <<>>]

VARIABLES
    pc,              \* position of the control-flow context
    exc,             \* the exception raised in this loop iteration ("none" if none)
    device,          \* the default input device (environment)
    local_sample_rate, \* global LOCAL_SAMPLE_RATE (0: never assigned)
    stream,          \* self.stream: "none", "open" (stopped), "active", "closed"
    orphanOpen,      \* streams no longer referenced, open and stopped
    orphanActive,    \* streams no longer referenced, still active
    audio_buffer,    \* self.audio_buffer
    is_recording,    \* self.is_recording
    current_db,      \* self.current_db
    meter,           \* the gauge last printed by draw_vu_meter
    audio_data,      \* main's local audio_data
    probability,     \* main's local probability
    delivered,       \* history: the chunks the driver handed to the callback
                     \*          in this record call, in order
    warnings,        \* history: status warnings logged in this record call
    saves,           \* history: save_audio invocations in this loop iteration
    decided,         \* history: the threshold comparison ran in this iteration
    detectFailed,    \* history: detect caught an exception in this iteration
    slept,           \* history: argument of the last sd.sleep, in ms (0: none yet)
    prevIter,        \* history: how the previous loop iteration ended:
                     \*          "none" (there was none), "ok", "failed"
    rate_supported,  \* the device can be opened at SAMPLE_RATE (environment)
    stream_rate,     \* samplerate of the last InputStream created (0: none yet)
    detect_rate,     \* sample_rate passed to detect in this iteration (0: not called)
    file,            \* the file save_audio wrote in this iteration
    cut,             \* history: an interrupt arrived while the window was running
    leftover,        \* history: the previous record call left samples in the buffer
    arg              \* history: the function last called directly, and its input

recorderVars == <<stream, orphanOpen, orphanActive, audio_buffer, is_recording,
                  current_db, meter>>
mainVars == <<audio_data, probability, device, local_sample_rate>>
histVars == <<delivered, warnings, saves, decided, detectFailed,
              slept, prevIter>>
extVars == <<rate_supported, stream_rate, detect_rate, file, cut, leftover,
            arg>>
vars == <<pc, exc, recorderVars, mainVars, histVars, extVars>>

\* ----------------------------------------------------------------- helpers
Max(a, b) == IF a >= b THEN a ELSE b
Min(a, b) == IF a <= b THEN a ELSE b

RECURSIVE SumSq(_)
SumSq(s) == IF s = <<>> THEN 0 ELSE Head(s) * Head(s) + SumSq(Tail(s))

RECURSIVE Pow10(_)
Pow10(k) == IF k = 0 THEN 1 ELSE 10 * Pow10(k - 1)

\* 20*log10(rms) floored to a whole decade, for rms > 0; rms^2 = sumsq/(n*10^6).
\* Values outside -60..10 are reported as -70 (below the range).
RawDb(sumsq, n) ==
    LET hit == {k \in 0..7 : sumsq >= n * Pow10(k)}
        top == CHOOSE k \in hit \cup {-1} : \A j \in hit : j <= k
    IN  10 * (top - 6)

calculate_dbUnclamped(audio) ==
    IF Len(audio) = 0 THEN DB_MIN
    ELSE LET sumsq == SumSq(audio)
         IN  IF sumsq > 0 THEN RawDb(sumsq, Len(audio)) ELSE DB_MIN
calculate_db(audio) ==
    IF Len(audio) = 0 THEN DB_MIN
    ELSE LET sumsq == SumSq(audio)
             db == IF sumsq > 0 THEN RawDb(sumsq, Len(audio)) ELSE DB_MIN
         IN  Max(Min(db, DB_MAX), DB_MIN)

\* int(x / d) for d > 0: truncation toward zero
TruncDiv(x, d) == IF x >= 0 THEN x \div d ELSE -((-x) \div d)

\* number of filled segments: int(normalized * METER_WIDTH)
meter_level(db) == TruncDiv((db - DB_MIN) * METER_WIDTH, DB_MAX - DB_MIN)

\* c * n: n copies of c, none when n <= 0
Repeat(c, n) == [i \in 1..n |-> c]

\* the gauge: '#' * meter_level + '-' * (METER_WIDTH - meter_level)
draw_vu_meterFixedEmpty(db) ==
    Repeat("#", meter_level(db)) \o Repeat("-", METER_WIDTH)
draw_vu_meter(db) ==
    Repeat("#", meter_level(db)) \o Repeat("-", METER_WIDTH - meter_level(db))

\* stream.stop(); stream.close()
StopAndCloseKeepsStream(s) == s
StopAndClose(s) == "closed"

\* "self.stream is not None and self.stream.active" guards every stop/close
CloseIfActive(s) == IF s = "active" THEN StopAndClose(s) ELSE s

OpenCount == orphanOpen + orphanActive + (IF stream \in {"open", "active"} THEN 1 ELSE 0)
ActiveCount == orphanActive + (IF stream = "active" THEN 1 ELSE 0)

\* -------------------------------------------------------------------- Init
Init ==
    /\ pc = "start"
    /\ exc = "none"
    /\ device \in Devices
    /\ rate_supported \in BOOLEAN
    /\ device = NoDevice => ~rate_supported
    /\ device = SAMPLE_RATE => rate_supported
    /\ stream_rate = 0
    /\ detect_rate = 0
    /\ file = NoFile
    /\ cut = FALSE
    /\ leftover = FALSE
    /\ arg = NoArg
    /\ local_sample_rate = 0
    /\ stream = "none"
    /\ orphanOpen = 0
    /\ orphanActive = 0
    /\ audio_buffer = <<>>
    /\ is_recording = FALSE
    /\ current_db = DB_MIN
    /\ meter = <<>>
    /\ audio_data = <<>>
    /\ probability = NoScore
    /\ delivered = <<>>
    /\ warnings = 0
    /\ saves = 0
    /\ decided = FALSE
    /\ detectFailed = FALSE
    /\ slept = 0
    /\ prevIter = "none"

\* ------------------------------------------------------------------ main()
\* recorder = AudioRecorder(): query the default input device; any error is
\* re-raised as RuntimeError, which main logs as fatal and re-raises.
Construct ==
    /\ pc = "start"
    /\ IF device = NoDevice
       THEN /\ pc' = "fatal"
            /\ exc' = "device"
            /\ UNCHANGED local_sample_rate
       ELSE /\ pc' = "load"
            /\ exc' = "none"
            /\ local_sample_rate' =
                 IF device # SAMPLE_RATE THEN device ELSE local_sample_rate
    /\ UNCHANGED <<recorderVars, audio_data, probability, device, histVars>>
    /\ UNCHANGED extVars

\* detector = PretrainedGunshotDetector(); detector.print_all_classes():
\* loading the model or the class map may raise, which is fatal.
LoadDetector ==
    /\ pc = "load"
    /\ \E ok \in BOOLEAN :
         IF ok THEN pc' = "idle" /\ exc' = "none"
               ELSE pc' = "fatal" /\ exc' = "model"
    /\ UNCHANGED <<recorderVars, mainVars, histVars>>
    /\ UNCHANGED extVars

\* Top of the while-loop: recorder.record(DURATION) is called and resets the
\* buffer and the flag.  (main's audio_data and probability of the previous
\* iteration are dead here: they are reassigned before they are read again.)
RecordBeginKeepsBuffer ==
    /\ pc = "idle"
    /\ pc' = "init_stream"
    /\ audio_buffer' = audio_buffer
    /\ is_recording' = FALSE
    /\ audio_data' = <<>>
    /\ probability' = NoScore
    /\ prevIter' = IF exc # "none" THEN "failed"
                 ELSE IF decided THEN "ok" ELSE prevIter
    /\ exc' = "none"
    /\ delivered' = <<>>
    /\ warnings' = 0
    /\ saves' = 0
    /\ decided' = FALSE
    /\ detectFailed' = FALSE
    /\ slept' = 0
    /\ UNCHANGED <<stream, orphanOpen, orphanActive, current_db, meter,
                   device, local_sample_rate>>
    /\ detect_rate' = 0
    /\ file' = NoFile
    /\ cut' = FALSE
    /\ leftover' = (audio_buffer # <<>>)
    /\ UNCHANGED <<rate_supported, stream_rate, arg>>
RecordBegin ==
    /\ pc = "idle"
    /\ pc' = "init_stream"
    /\ audio_buffer' = <<>>
    /\ is_recording' = FALSE
    /\ audio_data' = <<>>
    /\ probability' = NoScore
    /\ prevIter' = IF exc # "none" THEN "failed"
                 ELSE IF decided THEN "ok" ELSE prevIter
    /\ exc' = "none"
    /\ delivered' = <<>>
    /\ warnings' = 0
    /\ saves' = 0
    /\ decided' = FALSE
    /\ detectFailed' = FALSE
    /\ slept' = 0
    /\ UNCHANGED <<stream, orphanOpen, orphanActive, current_db, meter,
                   device, local_sample_rate>>
    /\ detect_rate' = 0
    /\ file' = NoFile
    /\ cut' = FALSE
    /\ leftover' = (audio_buffer # <<>>)
    /\ UNCHANGED <<rate_supported, stream_rate, arg>>

\* _initialize_stream(): an active stream is stopped and closed, then a new
\* InputStream is created at SAMPLE_RATE and replaces self.stream.  If the
\* creation raises (always, when the device cannot be opened at that rate),
\* it returns False and record raises RuntimeError to the loop.
InitializeStream ==
    /\ pc = "init_stream"
    /\ LET old == CloseIfActive(stream) IN
       \E ok \in BOOLEAN :
         IF ok
         THEN /\ rate_supported
              /\ stream' = "open"
              /\ stream_rate' = SAMPLE_RATE
              /\ orphanOpen' = orphanOpen + (IF old = "open" THEN 1 ELSE 0)
              /\ orphanActive' = orphanActive + (IF old = "active" THEN 1 ELSE 0)
              /\ pc' = "rec_try"
              /\ exc' = exc
         ELSE /\ stream' = old
              /\ UNCHANGED <<orphanOpen, orphanActive, stream_rate>>
              /\ pc' = "backoff"
              /\ exc' = "create"
    /\ UNCHANGED <<audio_buffer, is_recording, current_db, meter, mainVars, histVars>>
    /\ UNCHANGED <<rate_supported, detect_rate, file, cut, leftover, arg>>

\* self.is_recording = True; "with self.stream:" starts the stream.  If the
\* start raises, the with-block is not entered (no __exit__), the exception
\* is logged and re-raised, and the finally clause runs.
RecordStart ==
    /\ pc = "rec_try"
    /\ is_recording' = TRUE
    /\ \E ok \in BOOLEAN :
         IF ok
         THEN stream' = "active" /\ pc' = "sleeping" /\ exc' = exc
         ELSE /\ orphanOpen < MaxOrphans
              /\ stream' = stream /\ pc' = "finally" /\ exc' = "start"
    /\ UNCHANGED <<orphanOpen, orphanActive, audio_buffer, current_db, meter,
                   mainVars, histVars>>
    /\ UNCHANGED extVars

\* sd.sleep(int(duration * 1000)) returns: the with-block is left normally.
SleepReturnsBeforeStop ==
    /\ pc = "sleeping"
    /\ pc' = "return"
    /\ slept' = DURATION * 1000
    /\ UNCHANGED <<exc, recorderVars, mainVars, delivered, warnings,
                   saves, decided, detectFailed, prevIter>>
    /\ UNCHANGED extVars
SleepReturns ==
    /\ pc = "sleeping"
    /\ pc' = "with_exit"
    /\ slept' = DURATION * 1000
    /\ UNCHANGED <<exc, recorderVars, mainVars, delivered, warnings,
                   saves, decided, detectFailed, prevIter>>
    /\ UNCHANGED extVars

\* A statement of the with-body (the prints, the sleep) raises.
BodyRaises ==
    /\ pc = "sleeping"
    /\ pc' = "with_exit"
    /\ exc' = "body"
    /\ UNCHANGED <<recorderVars, mainVars, histVars>>
    /\ UNCHANGED extVars

\* Leaving the with-block, normally or by an exception: the stream's
\* __exit__ stops and closes it.
WithExit ==
    /\ pc = "with_exit"
    /\ stream' = StopAndClose(stream)
    /\ pc' = "finally"
    /\ UNCHANGED <<exc, orphanOpen, orphanActive, audio_buffer, is_recording,
                   current_db, meter, mainVars, histVars>>
    /\ UNCHANGED extVars

\* finally: clear the flag, stop and close the stream if it is still active;
\* then the pending exception, if any, goes on to main.
RecordFinallySwallows ==
    /\ pc = "finally"
    /\ is_recording' = FALSE
    /\ stream' = CloseIfActive(stream)
    /\ pc' = "return"
    /\ UNCHANGED <<exc, orphanOpen, orphanActive, audio_buffer, current_db, meter,
                   mainVars, histVars>>
    /\ UNCHANGED extVars
RecordFinally ==
    /\ pc = "finally"
    /\ is_recording' = FALSE
    /\ stream' = CloseIfActive(stream)
    /\ pc' = CASE exc = "none" -> "return"
               [] exc = "interrupt" -> "exited"
               [] OTHER -> "backoff"
    /\ UNCHANGED <<exc, orphanOpen, orphanActive, audio_buffer, current_db, meter,
                   mainVars, histVars>>
    /\ UNCHANGED extVars

\* return np.array(self.audio_buffer): the window goes to main's audio_data.
RecordReturnResets ==
    /\ pc = "return"
    /\ audio_data' = audio_buffer
    /\ audio_buffer' = <<>>
    /\ pc' = "log_stats"
    /\ UNCHANGED <<exc, stream, orphanOpen, orphanActive, is_recording,
                   current_db, meter, probability, device, local_sample_rate,
                   histVars>>
    /\ UNCHANGED extVars
RecordReturn ==
    /\ pc = "return"
    /\ audio_data' = audio_buffer
    /\ pc' = "log_stats"
    /\ UNCHANGED <<exc, recorderVars, probability, device, local_sample_rate, histVars>>
    /\ UNCHANGED extVars

\* The two debug lines: np.min/np.max of an empty array raise ValueError.
LogStats ==
    /\ pc = "log_stats"
    /\ IF Len(audio_data) = 0
       THEN pc' = "backoff" /\ exc' = "stats"
       ELSE pc' = "classify" /\ exc' = exc
    /\ UNCHANGED <<recorderVars, mainVars, histVars>>
    /\ UNCHANGED extVars

\* probability = detector.detect(audio_data, SAMPLE_RATE): detect catches
\* every exception of the processing and the inference, logs it and
\* returns 0.0.
Detect ==
    /\ pc = "classify"
    /\ \/ \E score \in Scores :
            probability' = score /\ detectFailed' = FALSE
       \/ probability' = 0 /\ detectFailed' = TRUE
    /\ pc' = "decide"
    /\ UNCHANGED <<exc, recorderVars, audio_data, device, local_sample_rate,
                   delivered, warnings, saves, decided, slept, prevIter>>
    /\ detect_rate' = SAMPLE_RATE
    /\ UNCHANGED <<rate_supported, stream_rate, file, cut, leftover, arg>>

\* if probability > 0.2
DecideAtLeast ==
    /\ pc = "decide"
    /\ decided' = TRUE
    /\ pc' = IF probability >= THRESHOLD THEN "save" ELSE "idle"
    /\ UNCHANGED <<exc, recorderVars, mainVars, delivered, warnings,
                   saves, detectFailed, slept, prevIter>>
    /\ UNCHANGED extVars
Decide ==
    /\ pc = "decide"
    /\ decided' = TRUE
    /\ pc' = IF probability > THRESHOLD THEN "save" ELSE "idle"
    /\ UNCHANGED <<exc, recorderVars, mainVars, delivered, warnings,
                   saves, detectFailed, slept, prevIter>>
    /\ UNCHANGED extVars

\* the wave file that writeframes(data) leaves: the frame count is the
\* number of bytes over the frame size
WaveFile(nchannels, sampwidth, framerate, nbytes) ==
    [written |-> TRUE, nchannels |-> nchannels, sampwidth |-> sampwidth,
     framerate |-> framerate, nframes |-> nbytes \div (nchannels * sampwidth)]

\* audio_data.tobytes(): the raw bytes of the array
tobytes_len(audio) == Len(audio) * ITEMSIZE

\* recorder.save_audio(audio_data, filename): may raise on a filesystem error.
SaveAudio ==
    /\ pc = "save"
    /\ saves' = saves + 1
    /\ \E ok \in BOOLEAN :
         IF ok THEN /\ pc' = "idle" /\ exc' = exc
                    /\ file' = WaveFile(CHANNELS, SAMPWIDTH, SAMPLE_RATE,
                                        tobytes_len(audio_data))
               ELSE /\ pc' = "backoff" /\ exc' = "save"
                    /\ file' = file
    /\ UNCHANGED <<rate_supported, stream_rate, detect_rate, cut,
                   leftover, arg>>
    /\ UNCHANGED <<recorderVars, mainVars, delivered, warnings,
                   decided, detectFailed, slept, prevIter>>

\* except Exception: log, sd.sleep(1000), continue
BackoffReraises ==
    /\ pc = "backoff"
    /\ slept' = BACKOFF_MS
    /\ pc' = "fatal"
    /\ UNCHANGED <<exc, recorderVars, mainVars, delivered, warnings,
                   saves, decided, detectFailed, prevIter>>
    /\ UNCHANGED extVars
Backoff ==
    /\ pc = "backoff"
    /\ slept' = BACKOFF_MS
    /\ pc' = "idle"
    /\ UNCHANGED <<exc, recorderVars, mainVars, delivered, warnings,
                   saves, decided, detectFailed, prevIter>>
    /\ UNCHANGED extVars

\* KeyboardInterrupt is not an Exception: no handler of record or of the loop
\* catches it.  Inside record's try it passes through the with-block's
\* __exit__ (if the block was entered) and the finally clause; everywhere
\* else it goes straight to main's "except KeyboardInterrupt".
InterruptSkipsExit ==
    /\ pc \in {"start", "load", "idle", "init_stream", "rec_try", "sleeping",
               "log_stats", "classify", "decide", "save", "backoff"}
    /\ exc' = "interrupt"
    /\ pc' = "exited"
    /\ UNCHANGED <<recorderVars, mainVars, histVars>>
    /\ cut' = (pc = "sleeping")
    /\ leftover' = leftover
    /\ UNCHANGED <<rate_supported, stream_rate, detect_rate, file, arg>>
Interrupt ==
    /\ pc \in {"start", "load", "idle", "init_stream", "rec_try", "sleeping",
               "log_stats", "classify", "decide", "save", "backoff"}
    /\ exc' = "interrupt"
    /\ pc' = CASE pc = "sleeping" -> "with_exit"
               [] pc = "rec_try" -> "finally"
               [] OTHER -> "exited"
    /\ UNCHANGED <<recorderVars, mainVars, histVars>>
    /\ cut' = (pc = "sleeping")
    /\ leftover' = leftover
    /\ UNCHANGED <<rate_supported, stream_rate, detect_rate, file, arg>>

\* ---------------------------------------------------------- driver context
\* The body of _audio_callback: log an abnormal status; while recording,
\* extend the buffer by the chunk's rows, compute the level and draw it.
audio_callbackDropsOnStatus(chunk, status) ==
    /\ delivered' = Append(delivered, chunk)
    /\ warnings' = IF status THEN warnings + 1 ELSE warnings
    /\ IF is_recording /\ ~status
       THEN /\ audio_buffer' = audio_buffer \o chunk
            /\ current_db' = calculate_db(chunk)
            /\ meter' = draw_vu_meter(current_db')
       ELSE UNCHANGED <<audio_buffer, current_db, meter>>
audio_callbackIgnoresFlag(chunk, status) ==
    /\ delivered' = Append(delivered, chunk)
    /\ warnings' = IF status THEN warnings + 1 ELSE warnings
    /\ audio_buffer' = audio_buffer \o chunk
    /\ current_db' = calculate_db(chunk)
    /\ meter' = draw_vu_meter(current_db')
audio_callback(chunk, status) ==
    /\ delivered' = Append(delivered, chunk)
    /\ warnings' = IF status THEN warnings + 1 ELSE warnings
    /\ IF is_recording
       THEN /\ audio_buffer' = audio_buffer \o chunk
            /\ current_db' = calculate_db(chunk)
            /\ meter' = draw_vu_meter(current_db')
       ELSE UNCHANGED <<audio_buffer, current_db, meter>>

\* _audio_callback(indata, frames, time, status), invoked by the driver for
\* a stream that is active.
AudioCallbackPrepends(src, chunk, status) ==
    /\ \/ src = "self" /\ stream = "active"
       \/ src = "orphan" /\ orphanActive > 0
    /\ Len(delivered) < MaxChunks
    /\ delivered' = Append(delivered, chunk)
    /\ warnings' = IF status THEN warnings + 1 ELSE warnings
    /\ IF is_recording
       THEN /\ audio_buffer' = chunk \o audio_buffer
            /\ current_db' = calculate_db(chunk)
            /\ meter' = draw_vu_meter(current_db')
       ELSE UNCHANGED <<audio_buffer, current_db, meter>>
    /\ UNCHANGED <<pc, exc, stream, orphanOpen, orphanActive, is_recording,
                   mainVars, saves, decided, detectFailed, slept, prevIter>>
    /\ UNCHANGED extVars
AudioCallback(src, chunk, status) ==
    /\ \/ src = "self" /\ stream = "active"
       \/ src = "orphan" /\ orphanActive > 0
    /\ Len(delivered) < MaxChunks
    /\ audio_callback(chunk, status)
    /\ UNCHANGED <<pc, exc, stream, orphanOpen, orphanActive, is_recording,
                   mainVars, saves, decided, detectFailed, slept, prevIter>>
    /\ UNCHANGED extVars

Callback == \E src \in {"self", "orphan"}, chunk \in Chunks, status \in BOOLEAN :
                AudioCallback(src, chunk, status)

\* ------------------------------------------------- methods called directly
\* A constructed recorder whose methods are called one at a time, outside
\* the loop, in the states record leaves it in: the flag on or off, the
\* buffer empty or holding a chunk, a level shown or not. The stream is
\* not running, so the driver delivers nothing in between.
Amplitudes == {0, 1, 1000, -1000}
ArgArrays == UNION {[1..n -> Amplitudes] : n \in 0..MaxArgLen}

UnitInit ==
    /\ pc = "unit"
    /\ exc = "none"
    /\ device = SAMPLE_RATE
    /\ rate_supported = TRUE
    /\ local_sample_rate = 0
    /\ is_recording \in BOOLEAN
    /\ stream = IF is_recording THEN "open" ELSE "closed"
    /\ stream_rate = SAMPLE_RATE
    /\ orphanOpen = 0
    /\ orphanActive = 0
    /\ audio_buffer \in {<<>>, <<1000, 0>>}
    /\ \E db \in {DB_MIN, DB_MAX} :
         /\ current_db = db
         /\ meter = IF db = DB_MIN THEN <<>> ELSE draw_vu_meter(db)
    /\ audio_data = <<>>
    /\ probability = NoScore
    /\ delivered = <<>>
    /\ warnings = 0
    /\ saves = 0
    /\ decided = FALSE
    /\ detectFailed = FALSE
    /\ slept = 0
    /\ prevIter = "none"
    /\ detect_rate = 0
    /\ file = NoFile
    /\ cut = FALSE
    /\ leftover = FALSE
    /\ arg = NoArg

\* recorder._audio_callback(chunk, frames, time, status)
CallDirect(chunk, status) ==
    /\ pc = "unit"
    /\ arg.fn \in {"none", "_audio_callback"}
    /\ Len(delivered) < MaxChunks
    /\ audio_callback(chunk, status)
    /\ arg' = [fn |-> "_audio_callback", input |-> chunk]
    /\ UNCHANGED <<pc, exc, stream, orphanOpen, orphanActive, is_recording,
                   mainVars, saves, decided, detectFailed, slept, prevIter,
                   rate_supported, stream_rate, detect_rate, file, cut,
                   leftover>>

\* self.current_db = self.calculate_db(audio)
UnitCalculateDb(audio) ==
    /\ pc = "unit"
    /\ arg = NoArg
    /\ arg' = [fn |-> "calculate_db", input |-> audio]
    /\ current_db' = calculate_db(audio)
    /\ UNCHANGED <<pc, exc, stream, orphanOpen, orphanActive, audio_buffer,
                   is_recording, meter, mainVars, histVars,
                   rate_supported, stream_rate, detect_rate, file, cut,
                   leftover>>

\* self.draw_vu_meter(db), for a level of the displayed range
UnitDrawMeter(db) ==
    /\ pc = "unit"
    /\ arg = NoArg
    /\ arg' = [fn |-> "draw_vu_meter", input |-> db]
    /\ meter' = draw_vu_meter(db)
    /\ UNCHANGED <<pc, exc, stream, orphanOpen, orphanActive, audio_buffer,
                   is_recording, current_db, mainVars, histVars,
                   rate_supported, stream_rate, detect_rate, file, cut,
                   leftover>>

UnitNext ==
    \/ \E chunk \in Chunks, status \in BOOLEAN : CallDirect(chunk, status)
    \/ \E audio \in ArgArrays : UnitCalculateDb(audio)
    \/ \E db \in DB_MIN..DB_MAX : UnitDrawMeter(db)

\* ------------------------------------------------------------ specification
\* The steps of the control-flow context that need no outside event.
Control ==
    \/ Construct
    \/ LoadDetector
    \/ RecordBegin
    \/ InitializeStream
    \/ RecordStart
    \/ SleepReturns
    \/ WithExit
    \/ RecordFinally
    \/ RecordReturn
    \/ LogStats
    \/ Detect
    \/ Decide
    \/ SaveAudio
    \/ Backoff

Next ==
    \/ Control
    \/ BodyRaises
    \/ Interrupt
    \/ Callback

Spec == Init /\ [][Next]_vars

\* The foreground thread keeps running: every sleep returns and every call
\* of the loop returns or raises.
FairSpec == Spec /\ WF_vars(Control)

\* The program, together with the recorder's methods called directly.
UnitSpec == (Init \/ UnitInit) /\ [][Next \/ UnitNext]_vars

TypeOK ==
    /\ pc \in {"start", "load", "fatal", "idle", "init_stream", "rec_try",
               "sleeping", "with_exit", "finally", "return", "log_stats",
               "classify", "decide", "save", "backoff", "exited", "unit"}
    /\ stream \in {"none", "open", "active", "closed"}
    /\ orphanOpen \in 0..MaxOrphans
    /\ is_recording \in BOOLEAN
    /\ current_db \in DB_MIN..DB_MAX
    /\ probability \in Scores \cup {NoScore}
    /\ warnings \in 0..MaxChunks
    /\ prevIter \in {"none", "ok", "failed"}
    /\ Len(delivered) <= MaxChunks

\* ------------------------------------------------------------------ claims
\* the rows of the chunks, in order: what extend() builds from them
RECURSIVE Flatten(_)
Flatten(chunks) ==
    IF chunks = <<>> THEN <<>> ELSE Head(chunks) \o Flatten(Tail(chunks))

\* exceptions that record raises to the loop
RecordErrors == {"create", "start", "body"}
\* round(duration * sample_rate)
CompleteWindowLen == DURATION * SAMPLE_RATE
\* positions of main after record has returned a window
AfterRecord == {"log_stats", "classify", "decide", "save"}

\* C1: whenever record fails (stream creation, stream start or the with-body
\* raises), the error reaches the loop's handler and no stream of the
\* recorder is left open at that moment.
C1_FailedRecordLeavesStreamClosed ==
    (pc = "backoff" /\ exc \in RecordErrors) => OpenCount = 0

\* C2: in every reachable state at most one input stream created by the
\* recorder is open.
C2_AtMostOneOpenStream == OpenCount <= 1

\* C3: the loop is left only by an interrupt, and after every failed
\* iteration (an exception reaching the handler, or detect failing) a new
\* record call begins unless an interrupt ends the process.
C3_LoopSurvivesFailure ==
    /\ [][(pc \notin {"start", "load"} /\ pc' \in {"exited", "fatal"} /\ pc' # pc)
            => exc' = "interrupt"]_vars
    /\ [](pc = "backoff" => <>(pc = "init_stream" \/ pc = "exited"))
    /\ []((detectFailed /\ pc = "decide") => <>(pc = "init_stream" \/ pc = "exited"))
\* a window is classified in the iteration after a failed one
C3_Witness == pc = "classify" /\ prevIter = "failed" /\ Len(audio_data) > 0

\* C4: no stream of an earlier record call is still running, a stream runs
\* only inside its own call's with-block, and no callback has fired for a
\* new window before that window's stream is started.
C4_WindowsNeverOverlap ==
    /\ orphanActive = 0
    /\ ActiveCount <= 1
    /\ stream = "active" => pc \in {"sleeping", "with_exit"}
    /\ pc \in {"init_stream", "rec_try"} => (delivered = <<>> /\ audio_buffer = <<>>)
\* the second of two consecutive calls is receiving chunks
C4_Witness ==
    /\ prevIter = "ok" /\ pc = "sleeping" /\ stream = "active"
    /\ Len(delivered) > 0 /\ audio_buffer # <<>>

\* C5: when record builds the returned array no stream is running and the
\* flag is off, and the array holds every frame the callback received.
C5_DrainAfterStop ==
    /\ pc = "return" => (ActiveCount = 0 /\ ~is_recording)
    /\ pc \in AfterRecord => (/\ ActiveCount = 0
                              /\ Len(audio_data) = Len(Flatten(delivered))
                              /\ audio_data = audio_buffer)
C5_Witness == pc = "return" /\ Len(delivered) >= 2 /\ stream = "closed"

\* C6: the window a successful record call returns is the concatenation of
\* the chunks the callback received during the call, in delivery order.
C6_WindowIsConcatenation ==
    pc \in AfterRecord => audio_data = Flatten(delivered)
C6_Witness ==
    /\ pc = "classify" /\ Len(delivered) = 2
    /\ delivered[1] # delivered[2] /\ delivered[1][1] # delivered[1][2]

\* C7: every window passed to the classifier has exactly
\* round(duration * sample_rate) samples.
C7_ClassifiedWindowIsComplete ==
    pc = "classify" => Len(audio_data) = CompleteWindowLen

\* C8: save_audio is invoked exactly once for a window whose score is
\* strictly above the threshold and never otherwise; a window that is not
\* saved takes the loop straight back to Idle.
C8_SaveIffAboveThreshold ==
    /\ saves \in {0, 1}
    /\ saves = 1 => (decided /\ probability > THRESHOLD)
    /\ (decided /\ pc \in {"idle", "backoff"})
          => saves = (IF probability > THRESHOLD THEN 1 ELSE 0)
    /\ (decided /\ probability <= THRESHOLD) => pc \in {"idle", "exited"}
    /\ pc = "save" => (decided /\ saves = 0)
C8_Witness == pc = "idle" /\ saves = 1 /\ probability = 201

\* C9 as claimed: a failure of record or of the classifier call never
\* reaches the threshold comparison.
C9_FailureSkipsDeciding ==
    (exc \in RecordErrors \/ detectFailed) => (~decided /\ pc \notin {"decide", "save"})

\* C9 as amended: a failure of record goes to the handler, which sleeps the
\* backoff and returns to Idle without a score or a decision; a failure
\* inside detect is turned into the score 0.0, which reaches the threshold
\* comparison, saves nothing and is followed by no backoff.
C9_RecordFailureBacksOff ==
    /\ exc \in RecordErrors =>
         /\ ~decided /\ probability = NoScore /\ saves = 0
         /\ pc \in {"with_exit", "finally", "backoff", "idle"}
         /\ pc = "idle" => slept = BACKOFF_MS
    /\ detectFailed =>
         /\ probability = 0 /\ saves = 0 /\ slept # BACKOFF_MS
         /\ pc \in {"decide", "idle", "exited"}
C9_Witness == pc = "idle" /\ exc = "start" /\ slept = BACKOFF_MS

\* C10: whenever main has returned after an interrupt, no stream of the
\* recorder is open.
C10_ExitClosesStream == pc = "exited" => OpenCount = 0


\* the rate the recorder adopted: the device's native rate when it differs
\* from the requested one
EffectiveRate == IF local_sample_rate # 0 THEN local_sample_rate ELSE SAMPLE_RATE

\* C11: the rate the stream is opened at, the rate passed to the classifier
\* and the rate in the saved file's header all equal the effective rate,
\* which is the device's native rate when that differs from the requested.
C11_SingleEffectiveRate ==
    /\ stream_rate # 0 => stream_rate = EffectiveRate
    /\ detect_rate # 0 => detect_rate = EffectiveRate
    /\ file.written => file.framerate = EffectiveRate

\* C12: with no input device, or with a device that cannot be opened at the
\* requested rate, the process never enters the monitoring loop.
C12_StartupErrorsAreFatal ==
    (device = NoDevice \/ ~rate_supported) => pc \in {"start", "load", "fatal", "exited"}

\* C13: the file save_audio writes for a window of N samples is mono,
\* 16-bit, at the recorder's sample rate, and holds exactly N frames.
C13_FileHasOneFramePerSample ==
    file.written =>
        /\ file.nchannels = 1
        /\ file.sampwidth = 2
        /\ file.framerate = stream_rate
        /\ file.nframes = Len(audio_data)


\* C14: calculate_db always returns a level within [DB_MIN, DB_MAX]; an
\* empty array gives DB_MIN and an all-zero array gives DB_MIN.
AllZero(audio) == \A i \in DOMAIN audio : audio[i] = 0
C14_DbWithinRange ==
    /\ current_db \in DB_MIN..DB_MAX
    /\ arg.fn = "calculate_db" =>
         /\ current_db = calculate_db(arg.input)
         /\ arg.input = <<>> => current_db = DB_MIN
         /\ AllZero(arg.input) => current_db = DB_MIN
C14_Witness ==
    /\ arg.fn = "calculate_db"
    /\ Len(arg.input) = 2
    /\ AllZero(arg.input)
    /\ current_db = DB_MIN

\* C15: the gauge draw_vu_meter builds has filled and empty segments that
\* always add up to METER_WIDTH; a level of DB_MIN fills none of them and a
\* level of DB_MAX fills all of them.
Filled(gauge) == Cardinality({i \in DOMAIN gauge : gauge[i] = "#"})
Empty(gauge) == Cardinality({i \in DOMAIN gauge : gauge[i] = "-"})
C16_InterruptWaitsForBoundary ==
    (cut /\ pc = "exited") =>
        /\ slept = DURATION * 1000
        /\ audio_data = audio_buffer

\* C16 (amended): an interrupt arriving during a window ends the record call
\* at once: the with-block's exit stops and closes the stream, the flag is
\* cleared, the chunks captured so far are not drained, classified or saved,
\* and main exits.
C16_InterruptEndsWindow ==
    cut =>
        /\ pc \in {"with_exit", "finally", "exited"}
        /\ exc = "interrupt"
        /\ audio_data = <<>>
        /\ audio_buffer = Flatten(delivered)
        /\ probability = NoScore
        /\ ~decided
        /\ saves = 0
        /\ ~file.written
        /\ pc \in {"finally", "exited"} => stream = "closed"
        /\ pc = "exited" => ~is_recording
C16_Witness ==
    /\ cut
    /\ pc = "exited"
    /\ Len(delivered) = 2
    /\ audio_buffer # <<>>
    /\ audio_data = <<>>


\* C17 (as stated): once record has drained the capture buffer into the
\* returned window, the capture buffer is empty.
C17_DrainResetsBuffer ==
    pc \in AfterRecord => audio_buffer = <<>>

\* C17 (amended): record returns a copy of the capture buffer and leaves the
\* buffer as it is; the buffer is emptied at the start of the next record
\* call, before its stream is created.
C17_BufferResetAtNextRecord ==
    /\ pc \in AfterRecord => audio_buffer = audio_data
    /\ pc \in {"init_stream", "rec_try"} => audio_buffer = <<>>
C17_Witness ==
    /\ pc = "log_stats"
    /\ audio_data # <<>>
    /\ audio_buffer = audio_data


\* C18: every window record returns holds only the chunks delivered during
\* that same record call: the buffer is empty at the moment the stream is
\* started, whatever an earlier call (returned, failed or aborted) left in it.
C18_WindowHoldsOwnChunks ==
    /\ pc = "rec_try" => audio_buffer = <<>>
    /\ pc \in {"sleeping", "with_exit", "finally", "return"} =>
         audio_buffer = Flatten(delivered)
    /\ pc \in AfterRecord => audio_data = Flatten(delivered)
C18_Witness ==
    /\ pc = "log_stats"
    /\ prevIter = "failed"
    /\ leftover
    /\ delivered # <<>>
    /\ audio_data = Flatten(delivered)


\* C19: an abnormal driver status does not stop capture: while recording, a
\* chunk delivered with a status is still appended to the buffer and metered,
\* the stream stays active, and later chunks of the window are appended too.
C19_StatusDoesNotStopCapture ==
    (pc = "sleeping" /\ warnings > 0) =>
        /\ stream = "active"
        /\ is_recording
        /\ audio_buffer = Flatten(delivered)
        /\ current_db = calculate_db(delivered[Len(delivered)])
        /\ meter = draw_vu_meter(current_db)
C19_Witness ==
    /\ pc = "sleeping"
    /\ warnings = 1
    /\ Len(delivered) = 2
    /\ Len(audio_buffer) = 4
    /\ stream = "active"


\* C20: is_recording is False whenever no record call is executing (before
\* the first call, after record returns, after it raises and after an
\* interrupt), and a callback invocation that finds is_recording False
\* leaves audio_buffer and current_db unchanged and draws no meter.
NoRecordRunning == {"start", "load", "fatal", "idle", "log_stats", "classify",
                    "decide", "save", "backoff", "exited"}
C20_FlagOffOutsideRecord ==
    /\ [](pc \in NoRecordRunning => ~is_recording)
    /\ [][(~is_recording /\ Len(delivered') = Len(delivered) + 1) =>
            /\ audio_buffer' = audio_buffer
            /\ current_db' = current_db
            /\ meter' = meter]_vars
C20_Witness ==
    /\ pc = "unit"
    /\ arg.fn = "_audio_callback"
    /\ ~is_recording
    /\ delivered = <<<<0, 1000>>, <<1000, 0>>>>
    /\ audio_buffer = <<>>
    /\ current_db = DB_MIN
    /\ meter = <<>>

====
